---- MODULE Spec2Model ----
(***************************************************************************)
(* Model of the two scripts of the repository:                             *)
(*   Linux/Debian/ntfy-qBittorrent.py     (notification hook, "Program A") *)
(*   Linux/Gentoo/portage-set-compare.py  (set comparator,    "Program B") *)
(*                                                                         *)
(* Strings are sequences of one-character strings.  Python integers are    *)
(* unbounded; sizes are kept as little-endian sequences of base-1024       *)
(* digits without leading zero digits, so that the whole range up to 2^64  *)
(* and beyond is represented exactly.                                      *)
(***************************************************************************)
EXTENDS Integers, Sequences, FiniteSets, TLC

VARIABLES
    \* ---- Program A: NtfyConfig construction on its own
    cfgDisk,      \* what config_path is on disk
    cfgLines,     \* the lines of the config file
    cfgResult,    \* outcome of NtfyConfig(config_path), or NotRun
    \* ---- Program A: TorrentInfo
    rawName,      \* raw_name
    nameOnce,     \* _parse_name(raw_name), or NotRun
    nameTwice,    \* _parse_name(_parse_name(raw_name)), or NotRun
    rawSize,      \* raw_size
    sizeField,    \* TorrentInfo.size, or NotRun
    sizeText,     \* size_human_readable, or NotRun
    \* ---- Program A: main
    pc,           \* position of main
    argv,         \* the three raw arguments
    torrentinfo,  \* TorrentInfo built by main
    ntfyconfig,   \* NtfyConfig built by main
    attempt,      \* loop variable of push_message
    posts,        \* number of POST requests issued
    responses,    \* how each POST ended, in order
    sleeps,       \* the delays slept, in order
    pushed,       \* how push_message ended: "none", "returned", "ScriptError", "Exception"
    raised,       \* the exception main caught: "none", "ScriptError", "Exception"
    escaped,      \* TRUE when an Exception left main
    rc,           \* main's return value, or NoRc
    \* ---- Program B
    fsys,         \* the directory entries of A and B
    bpc,          \* position of Program B's main thread
    paths,        \* the jobs get_paths returned
    futures,      \* per job: state and result of its future
    yielded,      \* jobs whose future as_completed has yielded
    merged,       \* the entries accumulated by merge_dicts
    printed,      \* the table print_table received, or NotRun
    exitCode      \* the process exit code, or NoRc

varsConfig  == <<cfgDisk, cfgLines, cfgResult>>
varsTorrent == <<rawName, nameOnce, nameTwice, rawSize, sizeField, sizeText>>
varsMain    == <<pc, argv, torrentinfo, ntfyconfig, attempt, posts, responses, sleeps,
                 pushed, raised, escaped, rc>>
varsB       == <<fsys, bpc, paths, futures, yielded, merged, printed, exitCode>>
vars        == <<varsConfig, varsTorrent, varsMain, varsB>>

\* Sentinels.  A string is a sequence of characters, so the sentinels of string
\* valued variables are sequences no string of the model equals.
NotRun == <<"not-run">>
None   == <<"None">>
NoRc   == 0 - 1

(***************************************************************************)
(* Strings                                                                 *)
(***************************************************************************)
Str(n, Alphabet) == UNION {[1..k -> Alphabet] : k \in 0..n}

RECURSIVE lstrip(_, _)
lstrip(s, chars) ==
    IF s # <<>> /\ Head(s) \in chars THEN lstrip(Tail(s), chars) ELSE s

RECURSIVE rstrip(_, _)
rstrip(s, chars) ==
    IF s # <<>> /\ s[Len(s)] \in chars
    THEN rstrip(SubSeq(s, 1, Len(s) - 1), chars)
    ELSE s

strip(s, chars) == rstrip(lstrip(s, chars), chars)

\* the characters str.strip() removes that the model's strings use
Whitespace == {" ", "\n"}

(***************************************************************************)
(* Program A: NtfyConfig                                                   *)
(***************************************************************************)
Header(name)       == [kind |-> "header", name |-> name, key |-> "", value |-> <<>>]
Option(key, value) == [kind |-> "option", name |-> "", key |-> key, value |-> value]

NoOptions == [p \in {} |-> <<>>]

\* ConfigParser.read_file, one line at a time.  st is the parser so far.
ReadLine(st, line) ==
    IF st.error # "none" THEN st
    ELSE IF line.kind = "header"
    THEN IF line.name \in st.sections
         THEN [st EXCEPT !.error = "DuplicateSectionError"]
         ELSE [st EXCEPT !.sections = @ \cup {line.name}, !.cursect = line.name]
    ELSE IF st.cursect = ""
    THEN [st EXCEPT !.error = "MissingSectionHeaderError"]
    ELSE IF <<st.cursect, line.key>> \in DOMAIN st.options
    THEN [st EXCEPT !.error = "DuplicateOptionError"]
    ELSE [st EXCEPT !.options =
            [p \in DOMAIN st.options \cup {<<st.cursect, line.key>>} |->
                IF p = <<st.cursect, line.key>>
                THEN strip(line.value, Whitespace)
                ELSE st.options[p]]]

RECURSIVE ReadLines(_, _)
ReadLines(st, lines) ==
    IF lines = <<>> THEN st
    ELSE ReadLines(ReadLine(st, Head(lines)), Tail(lines))

read_file(lines) ==
    ReadLines([error |-> "none", sections |-> {}, cursect |-> "",
               options |-> NoOptions], lines)

\* section.get(key, "")
SectionGet(parser, section, key) ==
    IF <<section, key>> \in DOMAIN parser.options
    THEN parser.options[<<section, key>>]
    ELSE <<>>

\* the keys _require_section reports missing
MissingKeys(parser, section, keys) ==
    {key \in keys : strip(SectionGet(parser, section, key), Whitespace) = <<>>}

Failure(exc, why) ==
    [exc |-> exc, why |-> why, remote_username |-> <<>>, remote_password |-> <<>>,
     remote_server |-> <<>>, remote_topic |-> <<>>]

\* faulty variant: the topic loses its trailing slashes only
TopicRstripOnly(parser) == rstrip(SectionGet(parser, "general", "topic"), {"/"})

\* the server and topic fields __post_init__ stores
NormalizedServer(parser) == rstrip(SectionGet(parser, "general", "server"), {"/"})
NormalizedTopic(parser)  == strip(SectionGet(parser, "general", "topic"), {"/"})

\* NtfyConfig.__post_init__
NtfyConfig(disk, lines) ==
    IF disk \in {"missing", "directory"}
    THEN Failure("ScriptError", "config file not found")
    ELSE IF disk = "unreadable"
    THEN Failure("ScriptError", "could not read config file")
    ELSE IF disk = "undecodable"
    THEN Failure("Exception", "UnicodeDecodeError")
    ELSE LET parser == read_file(lines) IN
         IF parser.error # "none"
         THEN Failure("Exception", parser.error)
         ELSE IF "general" \notin parser.sections
         THEN Failure("ScriptError", "config missing [general] section")
         ELSE IF "authentication" \notin parser.sections
         THEN Failure("ScriptError", "config missing [authentication] section")
         ELSE IF MissingKeys(parser, "general", {"server", "topic"}) # {}
         THEN Failure("ScriptError", "config missing keys in [general]")
         ELSE IF MissingKeys(parser, "authentication", {"username", "password"}) # {}
         THEN Failure("ScriptError", "config missing keys in [authentication]")
         ELSE [exc |-> "none", why |-> "",
               remote_username |-> SectionGet(parser, "authentication", "username"),
               remote_password |-> SectionGet(parser, "authentication", "password"),
               remote_server   |-> NormalizedServer(parser),
               remote_topic    |-> NormalizedTopic(parser)]

\* NtfyConfig.server_url
server_url(config) == config.remote_server \o <<"/">> \o config.remote_topic

(***************************************************************************)
(* Idle values: what the variables of the parts a specification does not   *)
(* exercise hold throughout.                                               *)
(***************************************************************************)
NoConfig == Failure("not-run", "")

IdleConfig ==
    /\ cfgDisk = "missing" /\ cfgLines = <<>> /\ cfgResult = NoConfig

IdleTorrent ==
    /\ rawName = <<>> /\ nameOnce = NotRun /\ nameTwice = NotRun
    /\ rawSize = [numeric |-> FALSE, negative |-> FALSE, digits |-> <<>>]
    /\ sizeField = [state |-> "not-run", digits |-> <<>>]
    /\ sizeText = NotRun

IdleMain ==
    /\ pc = "idle" /\ argv = <<>> /\ torrentinfo = <<>> /\ ntfyconfig = NoConfig
    /\ attempt = 0 /\ posts = 0 /\ responses = <<>> /\ sleeps = <<>> /\ pushed = "none"
    /\ raised = "none" /\ escaped = FALSE /\ rc = NoRc

IdleB ==
    /\ fsys = [usage |-> "ok", entries |-> <<>>]
    /\ bpc = "idle" /\ paths = <<>> /\ futures = <<>>
    /\ yielded = {} /\ merged = <<>>
    /\ printed = [called |-> FALSE, rows |-> <<>>] /\ exitCode = NoRc

(***************************************************************************)
(* Config files the model draws from                                       *)
(***************************************************************************)
MaxValLen == 3

Absent == <<"absent">>

OptionLine(key, value) == IF value = Absent THEN <<>> ELSE <<Option(key, value)>>

\* A file laid out as the script's docstring shows it, with an optional
\* option line in front of the first section header.
FileOf(orphan, sections, server, topic, username, password) ==
       (IF orphan THEN <<Option("server", <<"h">>)>> ELSE <<>>)
    \o (IF "general" \in sections
        THEN <<Header("general")>> \o OptionLine("server", server)
                                   \o OptionLine("topic", topic)
        ELSE <<>>)
    \o (IF "authentication" \in sections
        THEN <<Header("authentication")>> \o OptionLine("username", username)
                                          \o OptionLine("password", password)
        ELSE <<>>)

BothSections == {"general", "authentication"}

UrlFiles ==
    {FileOf(FALSE, BothSections, s, t, <<"u">>, <<"p">>) :
        s \in Str(MaxValLen, {"h", "/", " "}), t \in Str(MaxValLen, {"h", "/", " "})}

KeyFiles ==
    {FileOf(o, secs, s, t, u, p) :
        o \in BOOLEAN, secs \in SUBSET BothSections,
        s \in {Absent, <<"h">>}, t \in {Absent, <<"h">>},
        u \in {Absent, <<>>, <<" ">>, <<"u">>},
        p \in {Absent, <<>>, <<" ">>, <<"p">>}}

RepeatFiles ==
    { <<Header("general"), Header("general")>>,
      <<Header("general"), Option("server", <<"h">>), Option("server", <<"h">>)>> }

ConfigFiles == UrlFiles \cup KeyFiles \cup RepeatFiles

Disks == {"missing", "directory", "unreadable", "undecodable", "regular"}

(***************************************************************************)
(* SpecConfig: NtfyConfig(config_path) on every file of ConfigFiles        *)
(***************************************************************************)
InitConfig ==
    /\ cfgDisk \in Disks
    /\ cfgLines \in ConfigFiles
    /\ cfgResult = NoConfig
    /\ IdleTorrent /\ IdleMain /\ IdleB

Construct ==
    /\ cfgResult = NoConfig
    /\ cfgResult' = NtfyConfig(cfgDisk, cfgLines)
    /\ UNCHANGED <<cfgDisk, cfgLines, varsTorrent, varsMain, varsB>>

NextConfig == Construct

SpecConfig == InitConfig /\ [][NextConfig]_vars

(***************************************************************************)
(* What a config file holds, read off its lines without the parser          *)
(***************************************************************************)
\* the section an option line at position i belongs to ("" before any header)
RECURSIVE SectionOfLine(_, _)
SectionOfLine(lines, i) ==
    IF i <= 1 THEN ""
    ELSE IF lines[i - 1].kind = "header" THEN lines[i - 1].name
    ELSE SectionOfLine(lines, i - 1)

HasSection(lines, name) == \E i \in 1..Len(lines) : lines[i] = Header(name)

WrittenValues(lines, section, key) ==
    {lines[i].value : i \in {j \in 1..Len(lines) :
        /\ lines[j].kind = "option"
        /\ lines[j].key = key
        /\ SectionOfLine(lines, j) = section}}

AllIn(s, chars) == \A i \in 1..Len(s) : s[i] \in chars

KeyPresentNonBlank(lines, section, key) ==
    /\ WrittenValues(lines, section, key) # {}
    /\ \A v \in WrittenValues(lines, section, key) : ~AllIn(v, Whitespace)

RequiredKeys ==
    {<<"general", "server">>, <<"general", "topic">>,
     <<"authentication", "username">>, <<"authentication", "password">>}

AllKeysPresentNonBlank(lines) ==
    \A sk \in RequiredKeys : KeyPresentNonBlank(lines, sk[1], sk[2])

\* full with its leading (when left) and trailing (when right) characters
\* of chars removed, all of them: the pieces of full that qualify
Stripped(full, chars, left, right) ==
    {SubSeq(full, i, j) : <<i, j>> \in
        {ij \in (1..Len(full) + 1) \X (0..Len(full)) :
            /\ ij[1] <= ij[2] + 1
            /\ IF left THEN \A k \in 1..ij[1] - 1 : full[k] \in chars ELSE ij[1] = 1
            /\ IF right THEN \A k \in ij[2] + 1..Len(full) : full[k] \in chars
                        ELSE ij[2] = Len(full)
            /\ ij[1] <= ij[2] => /\ left => full[ij[1]] \notin chars
                                 /\ right => full[ij[2]] \notin chars}}

Constructed == cfgResult.exc # "not-run"

\* C6: NtfyConfig construction fails with ScriptError whenever the file does
\* not exist, cannot be read, lacks [general] or [authentication], or one of
\* the four required keys is absent or blank; it succeeds only when all four
\* keys are present and non-blank.
C6_FailsWithScriptError ==
    Constructed /\ cfgDisk # "undecodable" =>
        /\ (\/ cfgDisk \in {"missing", "directory", "unreadable"}
            \/ ~HasSection(cfgLines, "general")
            \/ ~HasSection(cfgLines, "authentication")
            \/ ~AllKeysPresentNonBlank(cfgLines))
           => cfgResult.exc = "ScriptError"
        /\ cfgResult.exc = "none" => AllKeysPresentNonBlank(cfgLines)

\* C7: for every accepted server and topic, server_url is the server without
\* its trailing slashes, one "/", and the topic without its leading and
\* trailing slashes.
C7_ServerUrl ==
    cfgResult.exc = "none" =>
        \E server \in WrittenValues(cfgLines, "general", "server") :
        \E topic \in WrittenValues(cfgLines, "general", "topic") :
        \E acceptedServer \in Stripped(server, Whitespace, TRUE, TRUE) :
        \E acceptedTopic \in Stripped(topic, Whitespace, TRUE, TRUE) :
        \E s \in Stripped(acceptedServer, {"/"}, FALSE, TRUE) :
        \E t \in Stripped(acceptedTopic, {"/"}, TRUE, TRUE) :
            server_url(cfgResult) = s \o <<"/">> \o t

C7_Witness ==
    /\ cfgResult.exc = "none"
    /\ <<"h", "/", "/">> \in WrittenValues(cfgLines, "general", "server")
    /\ <<"/", "h", "/">> \in WrittenValues(cfgLines, "general", "topic")
    /\ server_url(cfgResult) = <<"h", "/", "h">>

\* C10: every successfully constructed NtfyConfig has a non-empty
\* remote_server and a non-empty remote_topic.
C10_NonEmptyFields ==
    cfgResult.exc = "none" =>
        /\ cfgResult.remote_server # <<>>
        /\ cfgResult.remote_topic # <<>>

(***************************************************************************)
(* Program A: TorrentInfo._parse_name                                      *)
(***************************************************************************)
NameLimit == 256
NameKeep  == 254

\* the one character U+2026 (horizontal ellipsis), which is printable
Ellipsis == "U+2026"

\* faulty variant: only ASCII counts as printable
IsPrintableAscii(ch) == ch \notin {"\n", Ellipsis}

\* str.isprintable of one character: "\n" stands for the non-printable ones
IsPrintable(ch) == ch # "\n"

\* value[:254] + ellipsis
Truncate(value) == SubSeq(value, 1, NameKeep) \o <<Ellipsis>>

ReplaceNonPrintable(value) ==
    [i \in 1..Len(value) |-> IF IsPrintable(value[i]) THEN value[i] ELSE "."]

_parse_name(value) ==
    IF value = <<>> THEN None
    ELSE LET printable == IF \A i \in 1..Len(value) : IsPrintable(value[i])
                          THEN value
                          ELSE ReplaceNonPrintable(value)
         IN IF Len(printable) >= NameLimit THEN Truncate(printable) ELSE printable

\* _parse_category
_parse_category(value) == IF value = <<>> THEN None ELSE value

(***************************************************************************)
(* SpecName: _parse_name applied once and again                            *)
(***************************************************************************)
MaxNameLen == 258

NameChars == {"a", "\n", ".", Ellipsis}

NameLens == (0..3) \cup ((NameLimit - 3)..MaxNameLen)

MarkedPositions == {1, 2, NameKeep, NameKeep + 1, NameLimit, NameLimit + 1}

Names ==
    {[i \in 1..n |-> IF i = p THEN c ELSE IF i = q THEN d ELSE "a"] :
        n \in NameLens, p \in MarkedPositions, q \in MarkedPositions,
        c \in NameChars, d \in NameChars}

InitName ==
    /\ rawName \in Names
    /\ nameOnce = NotRun /\ nameTwice = NotRun
    /\ rawSize = [numeric |-> FALSE, negative |-> FALSE, digits |-> <<>>]
    /\ sizeField = [state |-> "not-run", digits |-> <<>>]
    /\ sizeText = NotRun
    /\ IdleConfig /\ IdleMain /\ IdleB

ParseName ==
    /\ nameOnce = NotRun
    /\ nameOnce' = _parse_name(rawName)
    /\ UNCHANGED <<rawName, nameTwice, rawSize, sizeField, sizeText,
                   varsConfig, varsMain, varsB>>

ParseNameAgain ==
    /\ nameOnce \notin {NotRun, None}
    /\ nameTwice = NotRun
    /\ nameTwice' = _parse_name(nameOnce)
    /\ UNCHANGED <<rawName, nameOnce, rawSize, sizeField, sizeText,
                   varsConfig, varsMain, varsB>>

NextName == ParseName \/ ParseNameAgain

SpecName == InitName /\ [][NextName]_vars

\* C9: name sanitization is idempotent: sanitizing a sanitized name yields the
\* same string, which has no non-printable character and at most 255
\* characters.
C9_Idempotent ==
    nameTwice # NotRun =>
        /\ nameTwice = nameOnce
        /\ \A i \in 1..Len(nameOnce) : IsPrintable(nameOnce[i])
        /\ Len(nameOnce) <= NameLimit - 1

C9_Witness ==
    /\ nameTwice # NotRun
    /\ Len(rawName) >= NameLimit
    /\ \E i \in 1..NameKeep : ~IsPrintable(rawName[i])
    /\ Len(nameTwice) = NameKeep + 1
    /\ nameTwice[NameKeep + 1] = Ellipsis

(***************************************************************************)
(* Program A: TorrentInfo._parse_size and size_human_readable              *)
(*                                                                         *)
(* An integer is its sign and its magnitude; the magnitude is a            *)
(* little-endian sequence of base-2^UnitBits digits, the last one not 0,   *)
(* and <<>> is zero.                                                       *)
(***************************************************************************)
UnitBits == 10
SizeBits == 64

Radix == 2 ^ UnitBits

\* 2^64 - 1
U64Max ==
    [i \in 1..(SizeBits \div UnitBits) + 1 |->
        IF i <= SizeBits \div UnitBits THEN Radix - 1
        ELSE 2 ^ (SizeBits % UnitBits) - 1]

\* a <= b on magnitudes
RECURSIVE LessEq(_, _)
LessEq(a, b) ==
    IF Len(a) # Len(b) THEN Len(a) < Len(b)
    ELSE IF a = <<>> THEN TRUE
    ELSE IF a[Len(a)] # b[Len(b)] THEN a[Len(a)] < b[Len(b)]
    ELSE LessEq(SubSeq(a, 1, Len(a) - 1), SubSeq(b, 1, Len(b) - 1))

NoSize == [state |-> "none", digits |-> <<>>]

\* TorrentInfo._parse_size; int(value) raises ValueError on non-numeric text
_parse_size(value) ==
    IF ~value.numeric THEN NoSize
    ELSE IF value.negative /\ value.digits # <<>> THEN NoSize
    ELSE IF ~LessEq(value.digits, U64Max) THEN NoSize
    ELSE [state |-> "int", digits |-> value.digits]

\* int.bit_length of a digit
RECURSIVE BitLen(_)
BitLen(n) == IF n = 0 THEN 0 ELSE 1 + BitLen(n \div 2)

\* int.bit_length
bit_length(digits) ==
    IF digits = <<>> THEN 0
    ELSE UnitBits * (Len(digits) - 1) + BitLen(digits[Len(digits)])

\* digits * m + carry, for a small m
RECURSIVE MulSmall(_, _, _)
MulSmall(digits, m, carry) ==
    IF digits = <<>>
    THEN IF carry = 0 THEN <<>>
         ELSE <<carry % Radix>> \o MulSmall(<<>>, m, carry \div Radix)
    ELSE LET x == Head(digits) * m + carry
         IN <<x % Radix>> \o MulSmall(Tail(digits), m, x \div Radix)

\* digits // (1 << (UnitBits * k))
FloorDivShift(digits, k) == SubSeq(digits, k + 1, Len(digits))

RECURSIVE ToInt(_)
ToInt(digits) ==
    IF digits = <<>> THEN 0 ELSE Head(digits) + Radix * ToInt(Tail(digits))

DigitChars == <<"0", "1", "2", "3", "4", "5", "6", "7", "8", "9">>

\* f"{n}"
RECURSIVE Decimal(_)
Decimal(n) ==
    IF n < 10 THEN <<DigitChars[n + 1]>>
    ELSE Decimal(n \div 10) \o <<DigitChars[(n % 10) + 1]>>

\* f"{n:02d}"
Decimal02(n) == IF n < 10 THEN <<"0">> \o Decimal(n) ELSE Decimal(n)

iec_prefixes ==
    << <<"B">>, <<"K", "i", "B">>, <<"M", "i", "B">>, <<"G", "i", "B">>,
       <<"T", "i", "B">>, <<"P", "i", "B">>, <<"E", "i", "B">> >>

UnknownSize == <<"u", "n", "k", "n", "o", "w", "n", " ", "s", "i", "z", "e">>

\* faulty variant: the unit index taken from the bit length itself
IecIdxOffByOne(digits) == bit_length(digits) \div UnitBits

\* iec_idx = (self.size.bit_length() - 1) // 10
IecIdx(digits) == (bit_length(digits) - 1) \div UnitBits

\* TorrentInfo.size_human_readable
size_human_readable(size) ==
    IF size.state = "none" THEN UnknownSize
    ELSE IF size.digits = <<>> THEN <<"0", " ", "B">>
    ELSE LET iec_idx   == IecIdx(size.digits)
             divided   == ToInt(FloorDivShift(MulSmall(size.digits, 100, 0), iec_idx))
             int_part  == divided \div 100
             dec_part  == divided % 100
             formatted == rstrip(rstrip(Decimal(int_part) \o <<".">> \o Decimal02(dec_part),
                                        {"0"}), {"."})
         IN formatted \o <<" ">> \o iec_prefixes[iec_idx + 1]

(***************************************************************************)
(* SpecSize: TorrentInfo.size and size_human_readable over raw sizes       *)
(***************************************************************************)
MaxDigits == 8

TopDigits == {1, 9, 10, 15, 16, 99, 100, 511, 512, 1000, Radix - 1}
LowDigits == {0, 1, 512, Radix - 1}

Magnitudes ==
    {<<>>} \cup
    {[i \in 1..n |-> IF i = n THEN top ELSE low] :
        n \in 1..MaxDigits, top \in TopDigits, low \in LowDigits}

RawSizes ==
    {[numeric |-> FALSE, negative |-> FALSE, digits |-> <<>>]} \cup
    {[numeric |-> TRUE, negative |-> neg, digits |-> m] :
        neg \in BOOLEAN, m \in Magnitudes}

InitSize ==
    /\ rawSize \in RawSizes
    /\ sizeField = [state |-> "not-run", digits |-> <<>>]
    /\ sizeText = NotRun
    /\ rawName = <<>> /\ nameOnce = NotRun /\ nameTwice = NotRun
    /\ IdleConfig /\ IdleMain /\ IdleB

ParseSize ==
    /\ sizeField.state = "not-run"
    /\ sizeField' = _parse_size(rawSize)
    /\ UNCHANGED <<rawName, nameOnce, nameTwice, rawSize, sizeText,
                   varsConfig, varsMain, varsB>>

RenderSize ==
    /\ sizeField.state # "not-run"
    /\ sizeText = NotRun
    /\ sizeText' = size_human_readable(sizeField)
    /\ UNCHANGED <<rawName, nameOnce, nameTwice, rawSize, sizeField,
                   varsConfig, varsMain, varsB>>

NextSize == ParseSize \/ RenderSize

SpecSize == InitSize /\ [][NextSize]_vars

\* 1024^k
PowRadix(k) == [i \in 1..k + 1 |-> IF i = k + 1 THEN 1 ELSE 0]

\* the text before the first space, and after it
RECURSIVE UpTo(_, _)
UpTo(text, stops) ==
    IF text = <<>> \/ Head(text) \in stops THEN <<>>
    ELSE <<Head(text)>> \o UpTo(Tail(text), stops)

UnitOf(text) == SubSeq(text, Len(UpTo(text, {" "})) + 2, Len(text))

DigitValue(ch) == CHOOSE d \in 0..9 : DigitChars[d + 1] = ch

RECURSIVE NumberOf(_)
NumberOf(chars) ==
    IF chars = <<>> THEN 0
    ELSE 10 * NumberOf(SubSeq(chars, 1, Len(chars) - 1)) + DigitValue(chars[Len(chars)])

\* the integer part of the displayed value
IntegerPartOf(text) == NumberOf(UpTo(text, {".", " "}))

\* C8: for a size in [1, 2^64-1] the unit chosen has the power k, 0..6, with
\* 1024^k <= size < 1024^(k+1), and the integer part displayed is 1..1023;
\* size 0 renders "0 B" and an absent size renders "unknown size".
C8_UnitSelection ==
    sizeText # NotRun =>
        IF sizeField.state = "none" THEN sizeText = UnknownSize
        ELSE IF sizeField.digits = <<>> THEN sizeText = <<"0", " ", "B">>
        ELSE /\ LessEq(sizeField.digits, U64Max)
             /\ \E k \in 0..6 :
                  /\ UnitOf(sizeText) = iec_prefixes[k + 1]
                  /\ LessEq(PowRadix(k), sizeField.digits)
                  /\ ~LessEq(PowRadix(k + 1), sizeField.digits)
             /\ IntegerPartOf(sizeText) \in 1..1023

C8_Witness ==
    /\ sizeText # NotRun
    /\ sizeField.state = "int"
    /\ sizeField.digits = U64Max
    /\ UnitOf(sizeText) = <<"E", "i", "B">>
    /\ IntegerPartOf(sizeText) = 15

(***************************************************************************)
(* Program A: NtfyMessage.push_message and main                            *)
(***************************************************************************)
POST_RETRY_DELAY == 3
POST_BACKOFF_EXP == 3

\* How one requests.post call ends: a response of a status class, a
\* RequestException (connection error, timeout, too many redirects), or an
\* exception that is no RequestException.
PostOutcomes == {"2xx", "3xx", "4xx", "5xx", "RequestException", "Exception"}

\* response.raise_for_status(): HTTPError, a RequestException, for 4xx and 5xx
RaisesForStatus(outcome) == outcome \in {"4xx", "5xx"}

\* the attempt ended in the except RequestException clause
IsRequestException(outcome) == outcome = "RequestException" \/ RaisesForStatus(outcome)

\* faulty variant: the delay grows linearly
LinearDelay(n) == POST_RETRY_DELAY * n

\* sleep(POST_RETRY_DELAY**attempt)
BackoffDelay(n) == POST_RETRY_DELAY ^ n

\* faulty variant: only ScriptError is caught
CaughtScriptErrorOnly(exc) == exc = "ScriptError"

\* the except clauses of main: ScriptError, then Exception
Caught(exc) == exc \in {"ScriptError", "Exception"}

\* a raw command-line word, with what int() makes of it
Word(text, numeric, digits) ==
    [text |-> text, numeric |-> numeric, negative |-> FALSE, digits |-> digits]

EmptyWord == Word(<<>>, FALSE, <<>>)

\* args = sys.argv + [""] * (4 - len(sys.argv)), then args[1:4]
PaddedArgs(words) == [i \in 1..3 |-> IF i <= Len(words) THEN words[i] ELSE EmptyWord]

\* TorrentInfo.__post_init__
TorrentInfo(raw_name, raw_size, raw_category) ==
    <<[name     |-> _parse_name(raw_name.text),
       size     |-> _parse_size(raw_size),
       category |-> _parse_category(raw_category.text)]>>

(***************************************************************************)
(* SpecMain: one run of the hook                                           *)
(***************************************************************************)
MaxArgs == 3

Words == {Word(<<"a">>, FALSE, <<>>), Word(<<"7">>, TRUE, <<7>>)}

MainConfigs ==
    { <<"regular", FileOf(FALSE, BothSections, <<"h", "/">>, <<"/", "h">>, <<"u">>, <<"p">>)>>,
      <<"regular", FileOf(FALSE, {"general"}, <<"h">>, <<"h">>, Absent, Absent)>>,
      <<"regular", FileOf(TRUE, BothSections, <<"h">>, <<"h">>, <<"u">>, <<"p">>)>>,
      <<"regular", FileOf(FALSE, BothSections, <<"h">>, <<" ">>, <<"u">>, <<"p">>)>>,
      <<"unreadable", <<>>>>,
      <<"missing", <<>>>> }

InitMain ==
    /\ pc = "parse"
    /\ argv \in Str(MaxArgs, Words)
    /\ \E c \in MainConfigs : cfgDisk = c[1] /\ cfgLines = c[2]
    /\ cfgResult = NoConfig
    /\ torrentinfo = <<>> /\ ntfyconfig = NoConfig
    /\ attempt = 0 /\ posts = 0 /\ responses = <<>> /\ sleeps = <<>>
    /\ pushed = "none" /\ raised = "none" /\ escaped = FALSE /\ rc = NoRc
    /\ IdleTorrent /\ IdleB

\* main leaves its try block with exception exc
Leave(exc) ==
    /\ pc' = "done"
    /\ raised' = exc
    /\ escaped' = ~Caught(exc)
    /\ rc' = IF Caught(exc) THEN 1 ELSE NoRc

\* torrentinfo = TorrentInfo(*args[1:4])
ParseArgs ==
    /\ pc = "parse"
    /\ LET args == PaddedArgs(argv)
       IN torrentinfo' = TorrentInfo(args[1], args[2], args[3])
    /\ pc' = "local"
    /\ UNCHANGED <<argv, ntfyconfig, attempt, posts, responses, sleeps, pushed,
                   raised, escaped, rc, varsConfig, varsTorrent, varsB>>

\* localconfig = LocalConfig(): the lookups fall back on the errors they
\* catch; any other exception leaves main's try block
ReadLocal ==
    /\ pc = "local"
    /\ \E exc \in {"none", "Exception"} :
          IF exc = "none"
          THEN pc' = "config" /\ UNCHANGED <<raised, escaped, rc>>
          ELSE Leave(exc)
    /\ UNCHANGED <<argv, torrentinfo, ntfyconfig, attempt, posts, responses, sleeps,
                   pushed, varsConfig, varsTorrent, varsB>>

\* ntfyconfig = NtfyConfig(ntfy_conf)
LoadConfig ==
    /\ pc = "config"
    /\ LET config == NtfyConfig(cfgDisk, cfgLines)
       IN /\ ntfyconfig' = config
          /\ IF config.exc = "none"
             THEN pc' = "build" /\ UNCHANGED <<raised, escaped, rc>>
             ELSE Leave(config.exc)
    /\ UNCHANGED <<argv, torrentinfo, attempt, posts, responses, sleeps, pushed,
                   varsConfig, varsTorrent, varsB>>

\* request = NtfyMessage(torrentinfo, localconfig, ntfyconfig); push_message
\* enters its loop with attempt = 1
BuildMessage ==
    /\ pc = "build"
    /\ \E exc \in {"none", "Exception"} :
          IF exc = "none"
          THEN pc' = "push" /\ attempt' = 1 /\ UNCHANGED <<raised, escaped, rc>>
          ELSE Leave(exc) /\ UNCHANGED attempt
    /\ UNCHANGED <<argv, torrentinfo, ntfyconfig, posts, responses, sleeps, pushed,
                   varsConfig, varsTorrent, varsB>>

\* one iteration of the loop of push_message, and main's return after it
Post ==
    /\ pc = "push"
    /\ \E outcome \in PostOutcomes :
          /\ posts' = posts + 1
          /\ responses' = Append(responses, outcome)
          /\ IF outcome = "Exception"
             THEN /\ pushed' = "Exception"
                  /\ Leave("Exception")
                  /\ UNCHANGED <<attempt, sleeps>>
             ELSE IF ~IsRequestException(outcome)
             THEN /\ pushed' = "returned"
                  /\ pc' = "done" /\ rc' = 0
                  /\ UNCHANGED <<attempt, sleeps, raised, escaped>>
             ELSE IF attempt < POST_BACKOFF_EXP
             THEN /\ sleeps' = Append(sleeps, BackoffDelay(attempt))
                  /\ attempt' = attempt + 1
                  /\ UNCHANGED <<pc, pushed, raised, escaped, rc>>
             ELSE /\ pushed' = "ScriptError"
                  /\ Leave("ScriptError")
                  /\ UNCHANGED <<attempt, sleeps>>
    /\ UNCHANGED <<argv, torrentinfo, ntfyconfig, varsConfig, varsTorrent, varsB>>

NextMain == ParseArgs \/ ReadLocal \/ LoadConfig \/ BuildMessage \/ Post

SpecMain == InitMain /\ [][NextMain]_vars

PushEnded == pushed # "none"

\* what the claim says of a run of push_message whose every POST is in Failed
RetriesThenFails(Failed) ==
    /\ posts > 0 /\ AllIn(responses, Failed) =>
          /\ posts <= POST_BACKOFF_EXP
          /\ sleeps = [i \in 1..(IF posts < POST_BACKOFF_EXP THEN posts ELSE posts - 1) |->
                          POST_RETRY_DELAY ^ i]
          /\ \A i \in 1..Len(sleeps) - 1 : sleeps[i] < sleeps[i + 1]
          /\ PushEnded <=> posts = POST_BACKOFF_EXP
    /\ PushEnded /\ AllIn(responses, Failed) =>
          /\ posts = POST_BACKOFF_EXP
          /\ sleeps = <<3, 9>>
          /\ pushed = "ScriptError"

MaskA == 1
MaskB == 2

\* a | b
RECURSIVE BitOr(_, _)
BitOr(a, b) ==
    IF a = 0 THEN b
    ELSE IF b = 0 THEN a
    ELSE (IF a % 2 = 1 \/ b % 2 = 1 THEN 1 ELSE 0) + 2 * BitOr(a \div 2, b \div 2)

\* a & b
RECURSIVE BitAnd(_, _)
BitAnd(a, b) ==
    IF a = 0 \/ b = 0 THEN 0
    ELSE (IF a % 2 = 1 /\ b % 2 = 1 THEN 1 ELSE 0) + 2 * BitAnd(a \div 2, b \div 2)

EmptyDict == <<>>

\* get_paths, past its checks: the regular files of A, then those of B, each
\* with its directory's mask; a job names its entry of fsys
RECURSIVE RegularFiles(_, _, _)
RegularFiles(entries, dir, i) ==
    IF i > Len(entries) THEN <<>>
    ELSE (IF entries[i].dir = dir /\ entries[i].kind = "file"
          THEN <<[entry |-> i, mask |-> IF dir = "A" THEN MaskA ELSE MaskB]>>
          ELSE <<>>) \o RegularFiles(entries, dir, i + 1)

get_paths(entries) == RegularFiles(entries, "A", 1) \o RegularFiles(entries, "B", 1)

\* faulty variant: the line is cut at the comment and not trimmed
EntryUntrimmed(line) == UpTo(line, {"#"})

\* yz.split("#", 1)[0].strip()
EntryText(line) == strip(UpTo(line, {"#"}), Whitespace)

\* entries[key] = mask
DictSet(entries, key, mask) ==
    [k \in DOMAIN entries \cup {key} |-> IF k = key THEN mask ELSE entries[k]]

\* the loop of process_file over the lines of the file
RECURSIVE ProcessLines(_, _, _)
ProcessLines(entries, lines, mask) ==
    IF lines = <<>> THEN entries
    ELSE LET xs == EntryText(Head(lines))
         IN ProcessLines(IF xs # <<>> THEN DictSet(entries, xs, mask) ELSE entries,
                         Tail(lines), mask)

\* process_file: the future's result, or the OSError path.open raised
process_file(entry, mask) ==
    IF entry.readable
    THEN [state |-> "done", error |-> FALSE, dict |-> ProcessLines(EmptyDict, entry.lines, mask)]
    ELSE [state |-> "done", error |-> TRUE, dict |-> EmptyDict]

\* entries.get(line, 0)
DictGet(entries, key, default) ==
    IF key \in DOMAIN entries THEN entries[key] ELSE default

\* faulty variant: the later mask replaces the earlier one
MergeOverwrite(entries, dic) ==
    [k \in DOMAIN entries \cup DOMAIN dic |->
        IF k \in DOMAIN dic THEN dic[k] ELSE entries[k]]

\* the inner loop of merge_dicts: one mapping merged into entries
MergeInto(entries, dic) ==
    [k \in DOMAIN entries \cup DOMAIN dic |->
        IF k \in DOMAIN dic THEN BitOr(DictGet(entries, k, 0), dic[k]) ELSE entries[k]]

\* merge_dicts over mappings consumed in the order of dicts
RECURSIVE MergeFrom(_, _)
MergeFrom(entries, dicts) ==
    IF dicts = <<>> THEN entries
    ELSE MergeFrom(MergeInto(entries, Head(dicts)), Tail(dicts))

merge_dicts(dicts) == MergeFrom(EmptyDict, dicts)

\* the order of str: by code point, a proper prefix first
CharRank(ch) ==
    CASE ch = "\n" -> 0 [] ch = " " -> 1 [] ch = "#" -> 2 [] ch = "a" -> 3 [] OTHER -> 4

RECURSIVE StrLess(_, _)
StrLess(x, y) ==
    IF y = <<>> THEN FALSE
    ELSE IF x = <<>> THEN TRUE
    ELSE IF Head(x) # Head(y) THEN CharRank(Head(x)) < CharRank(Head(y))
    ELSE StrLess(Tail(x), Tail(y))

RECURSIVE SortedKeys(_)
SortedKeys(keys) ==
    IF keys = {} THEN <<>>
    ELSE LET least == CHOOSE k \in keys : \A other \in keys \ {k} : StrLess(k, other)
         IN <<least>> \o SortedKeys(keys \ {least})

\* the rows print_table hands to tabulate
TableRows(entries) ==
    LET keys == SortedKeys(DOMAIN entries)
    IN [i \in 1..Len(keys) |->
          [line |-> keys[i],
           a    |-> BitAnd(entries[keys[i]], 1),
           b    |-> BitAnd(entries[keys[i]], 2) \div 2]]

\* faulty variant: a failed future's exception is dropped
NeverPropagates(future) == FALSE

\* f.result() re-raises the exception of the task
Propagates(future) == future.error

(***************************************************************************)
(* SpecB: one run of the comparator                                        *)
(***************************************************************************)
MaxFiles == 3
Workers  == 2

Contents ==
    { << <<"a", " ", "#", "b", "\n">>, <<"\n">> >>,
      << <<"a", "\n">>, <<"#", "a", "\n">>, <<" ", "b", " ", "a">> >>,
      << <<" ", "b", "#", "\n">>, <<" ", "\n">> >> }

DirEntries ==
    {[dir |-> d, kind |-> "symlink", readable |-> TRUE, lines |-> <<>>] : d \in {"A", "B"}}
    \cup {[dir |-> d, kind |-> "file", readable |-> FALSE, lines |-> <<>>] : d \in {"A", "B"}}
    \cup {[dir |-> d, kind |-> "file", readable |-> TRUE, lines |-> c] :
            d \in {"A", "B"}, c \in Contents}

InitB ==
    /\ fsys \in [usage : {"ok", "argc", "notdir"}, entries : Str(MaxFiles, DirEntries)]
    /\ fsys.usage # "ok" => fsys.entries = <<>>
    /\ bpc = "start"
    /\ paths = <<>> /\ futures = <<>> /\ yielded = {}
    /\ merged = EmptyDict
    /\ printed = [called |-> FALSE, rows |-> <<>>]
    /\ exitCode = NoRc
    /\ IdleConfig /\ IdleTorrent /\ IdleMain

Pending == [state |-> "pending", error |-> FALSE, dict |-> EmptyDict]
Running == [state |-> "running", error |-> FALSE, dict |-> EmptyDict]

Jobs == 1..Len(futures)

\* paths = get_paths(argv), whose ValueError ends the process with code 1,
\* then executor.submit for every job
GetPathsAndSubmit ==
    /\ bpc = "start"
    /\ IF fsys.usage = "ok"
       THEN /\ paths' = get_paths(fsys.entries)
            /\ futures' = [i \in 1..Len(get_paths(fsys.entries)) |-> Pending]
            /\ bpc' = "merge"
            /\ UNCHANGED exitCode
       ELSE /\ bpc' = "exited"
            /\ exitCode' = 1
            /\ UNCHANGED <<paths, futures>>
    /\ UNCHANGED <<fsys, yielded, merged, printed, varsConfig, varsTorrent, varsMain>>

\* a free worker thread takes the oldest queued job
StartTask(i) ==
    /\ futures[i].state = "pending"
    /\ \A j \in 1..i - 1 : futures[j].state # "pending"
    /\ Cardinality({j \in Jobs : futures[j].state = "running"}) < Workers
    /\ futures' = [futures EXCEPT ![i] = Running]
    /\ UNCHANGED <<fsys, bpc, paths, yielded, merged, printed, exitCode,
                   varsConfig, varsTorrent, varsMain>>

\* the worker runs process_file(job) to its end
FinishTask(i) ==
    /\ futures[i].state = "running"
    /\ futures' = [futures EXCEPT ![i] = process_file(fsys.entries[paths[i].entry],
                                                      paths[i].mask)]
    /\ UNCHANGED <<fsys, bpc, paths, yielded, merged, printed, exitCode,
                   varsConfig, varsTorrent, varsMain>>

\* merge_dicts takes the next mapping of (f.result() for f in as_completed(futures))
MergeNext(i) ==
    /\ bpc = "merge"
    /\ i \notin yielded
    /\ futures[i].state = "done"
    /\ yielded' = yielded \cup {i}
    /\ IF Propagates(futures[i])
       THEN bpc' = "raising" /\ UNCHANGED merged
       ELSE merged' = MergeInto(merged, futures[i].dict) /\ UNCHANGED bpc
    /\ UNCHANGED <<fsys, paths, futures, printed, exitCode,
                   varsConfig, varsTorrent, varsMain>>

\* as_completed is exhausted: the with block ends and print_table(merged) runs
PrintTable ==
    /\ bpc = "merge"
    /\ yielded = Jobs
    /\ printed' = [called |-> TRUE, rows |-> TableRows(merged)]
    /\ bpc' = "exited"
    /\ exitCode' = 0
    /\ UNCHANGED <<fsys, paths, futures, yielded, merged,
                   varsConfig, varsTorrent, varsMain>>

\* the exception leaves the with block once executor.shutdown(wait=True) has
\* seen every task end, leaves main, and the except clause exits with 1
Abort ==
    /\ bpc = "raising"
    /\ \A j \in Jobs : futures[j].state = "done"
    /\ bpc' = "exited"
    /\ exitCode' = 1
    /\ UNCHANGED <<fsys, paths, futures, yielded, merged, printed,
                   varsConfig, varsTorrent, varsMain>>

NextB ==
    \/ GetPathsAndSubmit
    \/ \E i \in Jobs : StartTask(i)
    \/ \E i \in Jobs : FinishTask(i)
    \/ \E i \in Jobs : MergeNext(i)
    \/ PrintTable
    \/ Abort

SpecB == InitB /\ [][NextB]_vars

\* a regular file of fsys that cannot be read is among the jobs
SomeReadFails ==
    \E e \in 1..Len(fsys.entries) :
        fsys.entries[e].kind = "file" /\ ~fsys.entries[e].readable

\* C3: if reading any single file fails, the run is aborted: print_table is
\* never called, whatever the other tasks did and in whatever order they
\* ended, and the process exits with code 1.
C3_ReadFailureAborts ==
    /\ SomeReadFails =>
          /\ ~printed.called
          /\ bpc = "exited" => exitCode = 1
    /\ (\E i \in Jobs : futures[i].state = "done" /\ futures[i].error) => SomeReadFails
    /\ bpc = "exited" /\ exitCode = 1 /\ fsys.usage = "ok" =>
          /\ \A i \in Jobs : futures[i].state = "done"
          /\ \E i \in yielded : futures[i].error

C3_Witness ==
    /\ bpc = "exited"
    /\ exitCode = 1
    /\ ~printed.called
    /\ Len(futures) = 3
    /\ \E i \in yielded : futures[i].error
    /\ \E i \in yielded : ~futures[i].error /\ DOMAIN futures[i].dict # {}
    /\ \E i \in Jobs \ yielded : ~futures[i].error

\* the permutations of 1..n
Orders(n) == {f \in [1..n -> 1..n] : \A i, j \in 1..n : f[i] = f[j] => i = j}

\* bit b (0 or 1) of mask
Bit(mask, b) == (mask \div (2 ^ b)) % 2

\* the mappings the tasks returned
ResultDicts == [i \in Jobs |-> futures[i].dict]

Merged == bpc = "exited" /\ printed.called

\* C4: merge_dicts is commutative and idempotent: the merged table is the
\* same for every order in which the mappings are consumed, each key's mask
\* is the bitwise OR of its masks in all the mappings, and merging a mapping
\* with itself yields that mapping.
C4_MergeOrderIrrelevant ==
    Merged =>
        /\ \A f \in Orders(Len(futures)) :
              merge_dicts([i \in Jobs |-> ResultDicts[f[i]]]) = merged
        /\ DOMAIN merged = UNION {DOMAIN ResultDicts[i] : i \in Jobs}
        /\ \A k \in DOMAIN merged : \A b \in {0, 1} :
              Bit(merged[k], b) = 1 <=>
                 \E i \in Jobs : k \in DOMAIN ResultDicts[i] /\ Bit(ResultDicts[i][k], b) = 1
        /\ \A i \in Jobs : merge_dicts(<<ResultDicts[i], ResultDicts[i]>>) = ResultDicts[i]
        /\ merge_dicts(<<merged, merged>>) = merged

C4_Witness ==
    /\ Merged
    /\ Len(futures) = 3
    /\ \E k \in DOMAIN merged :
          /\ merged[k] = 3
          /\ \E i, j \in Jobs : /\ k \in DOMAIN ResultDicts[i] /\ ResultDicts[i][k] = 1
                                /\ k \in DOMAIN ResultDicts[j] /\ ResultDicts[j][k] = 2
    /\ \E k \in DOMAIN merged : merged[k] = 1

\* the entry a line stands for: the line up to its first "#", without the
\* whitespace around it
EntriesOfLine(line) ==
    UNION {Stripped(SubSeq(line, 1, n), Whitespace, TRUE, TRUE) :
        n \in {m \in 0..Len(line) :
                /\ \A i \in 1..m : line[i] # "#"
                /\ m = Len(line) \/ line[m + 1] = "#"}}

\* the entries of the regular files directly in directory dir
EntriesIn(dir) ==
    UNION {UNION {EntriesOfLine(fsys.entries[e].lines[l]) :
                    l \in 1..Len(fsys.entries[e].lines)} :
        e \in {x \in 1..Len(fsys.entries) :
                 fsys.entries[x].dir = dir /\ fsys.entries[x].kind = "file"}} \ {<<>>}

\* C5: the keys of the entry table are exactly the non-empty strings got by
\* cutting each line at its first "#" and trimming it; bit 0 is set iff the
\* entry occurs in a regular file of A, bit 1 iff in one of B; every mask is
\* 1, 2 or 3.
C5_EntryTable ==
    Merged =>
        /\ DOMAIN merged = EntriesIn("A") \cup EntriesIn("B")
        /\ <<>> \notin DOMAIN merged
        /\ \A k \in DOMAIN merged :
              /\ Bit(merged[k], 0) = 1 <=> k \in EntriesIn("A")
              /\ Bit(merged[k], 1) = 1 <=> k \in EntriesIn("B")
              /\ merged[k] \in {1, 2, 3}
        /\ Len(printed.rows) = Cardinality(DOMAIN merged)
        /\ \A r \in 1..Len(printed.rows) :
              /\ printed.rows[r].line \in DOMAIN merged
              /\ printed.rows[r].a = Bit(merged[printed.rows[r].line], 0)
              /\ printed.rows[r].b = Bit(merged[printed.rows[r].line], 1)

C5_Witness ==
    /\ Merged
    /\ \E e \in 1..Len(fsys.entries) :
          /\ fsys.entries[e].dir = "A"
          /\ fsys.entries[e].kind = "file"
          /\ fsys.entries[e].lines = << <<"a", " ", "#", "b", "\n">>, <<"\n">> >>
    /\ \E e \in 1..Len(fsys.entries) :
          /\ fsys.entries[e].dir = "B"
          /\ fsys.entries[e].kind = "file"
          /\ <<"a", "\n">> \in {fsys.entries[e].lines[l] : l \in 1..Len(fsys.entries[e].lines)}
    /\ \E e \in 1..Len(fsys.entries) : fsys.entries[e].kind = "symlink"
    /\ merged[<<"a">>] = 3
    /\ merged[<<"b", " ", "a">>] = 2

====
